---- MODULE Spec2Model ----
(***************************************************************************)
(* Identity reconciliation of the BiteSpeed backend: ContactService        *)
(* (contact.service.ts) over ContactModel (contact.model.ts, a DynamoDB    *)
(* table read by GetItem and by unordered Scans).                          *)
(*                                                                         *)
(* The table is the sequence `contacts`, held in the order a Scan returns  *)
(* its items: DynamoDB orders a scan by the hash of the key, the key is a  *)
(* uuidv4, so a new item lands at an arbitrary place of that order and the *)
(* order has nothing to do with createdAt.  Timestamps are milliseconds    *)
(* (new Date().toISOString()); comparing two of them as Dates is the       *)
(* comparison of the integers.  Optional strings that are absent are       *)
(* Undefined; requests carry non-empty strings or nothing, as the Joi      *)
(* schema of the endpoint lets through.                                    *)
(*                                                                         *)
(* Specifications:                                                         *)
(*   Spec            calls answered one after the other, the clock moving  *)
(*                   between any two creates                               *)
(*   SpecFail        the same, with store operations that fail             *)
(*   SpecTie         the same, with creates in the same millisecond        *)
(*   SpecCrash       the same, with a merge that stops between its writes  *)
(*   SpecGrown       calls answered one after the other, from tables of    *)
(*                   three records that such calls leave                   *)
(*   SpecRecorded    calls answered one after the other, one response      *)
(*                   kept for comparison with the later ones               *)
(*   SpecConcurrent  two calls side by side, one store operation at a time *)
(*   SpecAfterRace   calls answered one after the other, from the table    *)
(*                   that two calls side by side leave                     *)
(***************************************************************************)
EXTENDS Integers, Sequences, FiniteSets, TLC

\* ---------------------------------------------------------------- bounds
MaxContacts == 3

\* the size up to which calls running side by side let the table grow
MaxConcurrentContacts == 2

\* the size up to which the tables of three records grow
MaxGrownContacts == 4

Undefined == "undefined"
NoId == 0
\* IdentifyRequest { email?: string; phoneNumber?: string }: the strings in use
Emails == <<"e1", "e2">>
Phones == <<"p1", "p2", "p3">>

\* The store operations of one identify call that can fail, one kind per call site.
FailKinds == {"find", "rootFetch", "createPrimary", "createSecondary",
              "demote", "repoint", "reload"}

VARIABLES
  contacts,   \* the table, in scan order
  now,        \* the wall clock, in milliseconds
  pre,        \* the table as the last identify call found it
  request,    \* the last call's request
  result,     \* what the last call returned (DbOperationResult<ConsolidatedContact>)
  ops,        \* the ContactModel operations the last call issued, in order
  branch,     \* the branch of identifyContact the last call took
  failed,     \* the kind of store operation that failed during the last call
  createdAsPrimary,  \* the ids of the records that were created as primaries
  crashedFrom, \* the table as a call that stopped between its writes found it
  calls,      \* the calls in progress side by side, one per caller
  base,       \* the table when the first of the calls in progress began
  round,      \* the requests of the calls begun since then, in the order they began
  listed      \* the values of the one response the caller keeps, where it keeps one

vars == <<contacts, now, pre, request, result, ops, branch, failed, createdAsPrimary,
          crashedFrom, calls, base, round, listed>>

\* ------------------------------------------------------------ sequences
Range(s) == {s[i] : i \in DOMAIN s}

InsertAt(s, pos, x) == SubSeq(s, 1, pos) \o <<x>> \o SubSeq(s, pos + 1, Len(s))

Contains(s, x) == \E i \in DOMAIN s : s[i] = x

\* if (x) on an optional string: undefined and "" are falsy
Truthy(v) == v \notin {Undefined, ""}

\* ------------------------------------------------------------ ContactModel
NoContact == [id |-> NoId, email |-> Undefined, phoneNumber |-> Undefined,
              linkedId |-> NoId, linkPrecedence |-> "none",
              createdAt |-> 0, updatedAt |-> 0]

HasId(store, id) == \E i \in DOMAIN store : store[i].id = id

ById(store, id) == CHOOSE c \in Range(store) : c.id = id

\* ContactModel.getById: GetItem by key; no item is "Contact not found"
getById(store, id) ==
  IF HasId(store, id)
    THEN [success |-> TRUE, data |-> ById(store, id)]
    ELSE [success |-> FALSE, data |-> NoContact]

\* the item built without copying params.phoneNumber
NewContactWithoutPhone(store, params, t) ==
  [id |-> Len(store) + 1,
   email |-> params.email,
   phoneNumber |-> Undefined,
   linkedId |-> params.linkedId,
   linkPrecedence |-> params.linkPrecedence,
   createdAt |-> t,
   updatedAt |-> t]

\* ContactModel.create: a fresh uuid, createdAt = updatedAt = now, optional
\* properties only when defined; the item lands at `pos` of the scan order
NewContact(store, params, t) ==
  [id |-> Len(store) + 1,
   email |-> params.email,
   phoneNumber |-> params.phoneNumber,
   linkedId |-> params.linkedId,
   linkPrecedence |-> params.linkPrecedence,
   createdAt |-> t,
   updatedAt |-> t]

\* the put made conditional on no item holding the same email and phone number
createUnlessPresent(store, params, t, pos) ==
  IF \E i \in DOMAIN store : /\ store[i].email = params.email
                              /\ store[i].phoneNumber = params.phoneNumber
    THEN store
    ELSE InsertAt(store, pos, NewContact(store, params, t))

create(store, params, t, pos) == InsertAt(store, pos, NewContact(store, params, t))

\* the SET expression with createdAt stamped along with updatedAt
UpdateItemStampingCreatedAt(c, params) ==
  [c EXCEPT !.linkedId = IF params.linkedId # NoId THEN params.linkedId ELSE @,
            !.linkPrecedence = IF params.linkPrecedence # Undefined
                                 THEN params.linkPrecedence ELSE @,
            !.createdAt = params.updatedAt,
            !.updatedAt = params.updatedAt]

\* ContactModel.update: SET linkedId and linkPrecedence when the params define
\* them, and updatedAt, on the item
UpdateItem(c, params) ==
  [c EXCEPT !.linkedId = IF params.linkedId # NoId THEN params.linkedId ELSE @,
            !.linkPrecedence = IF params.linkPrecedence # Undefined
                                 THEN params.linkPrecedence ELSE @,
            !.updatedAt = params.updatedAt]

\* the update whose key names no item
updateNoItem(store, params) == store

update(store, params) ==
  [i \in DOMAIN store |->
     IF store[i].id = params.id THEN UpdateItem(store[i], params) ELSE store[i]]

\* the filter with AND between its conditions
MatchesQueryBoth(c, params) ==
  /\ Truthy(params.email) /\ c.email = params.email
  /\ Truthy(params.phoneNumber) /\ c.phoneNumber = params.phoneNumber

\* ContactModel.findByEmailOrPhone: Scan with "email = :email OR phoneNumber = :phoneNumber"
MatchesQuery(c, params) ==
  \/ Truthy(params.email) /\ c.email = params.email
  \/ Truthy(params.phoneNumber) /\ c.phoneNumber = params.phoneNumber

findByEmailOrPhone(store, params) ==
  SelectSeq(store, LAMBDA c : MatchesQuery(c, params))

\* ContactModel.getLinkedContacts: the item itself, then Scan "linkedId = :linkedId"
LinkedScan(store, primaryContactId) ==
  SelectSeq(store, LAMBDA c : c.linkedId = primaryContactId)

getLinkedContacts(store, primaryContactId) ==
  IF ~getById(store, primaryContactId).success
    THEN [success |-> FALSE, data |-> <<>>]
    ELSE [success |-> TRUE,
          data |-> <<getById(store, primaryContactId).data>>
                     \o LinkedScan(store, primaryContactId)]

\* ------------------------------------------------------------ ContactService
NoData == [primaryContactId |-> NoId, emails |-> <<>>, phoneNumbers |-> <<>>,
           secondaryContactIds |-> <<>>]

Failure(msg) == [success |-> FALSE, error |-> msg, data |-> NoData]

Success(d) == [success |-> TRUE, error |-> "", data |-> d]

\* what the catch block of identifyContact returns for anything thrown below it
InternalError == Failure("Internal server error during contact identification")

\* a TypeError raised by reading a property of undefined, before it is caught
Thrown == Failure("TypeError")

Outcome(store, res, oplog, br) ==
  [store |-> store, result |-> res, ops |-> oplog, branch |-> br]

\* createParams with a placeholder for the field the request lacks
PrimaryParamsPlaceholder(req) ==
  [email |-> IF Truthy(req.email) THEN req.email ELSE "",
   phoneNumber |-> IF Truthy(req.phoneNumber) THEN req.phoneNumber ELSE "",
   linkedId |-> NoId, linkPrecedence |-> "primary"]

\* createNewPrimaryContact: create { linkPrecedence: "primary", email?, phoneNumber? }
\* and answer from the created item alone
PrimaryParams(req) ==
  [email |-> req.email, phoneNumber |-> req.phoneNumber,
   linkedId |-> NoId, linkPrecedence |-> "primary"]

createNewPrimaryContact(store, req, t, pos, fail) ==
  IF fail = "createPrimary"
    THEN Outcome(store, Failure("Failed to create new primary contact"),
                 <<"create">>, "newPrimary")
    ELSE LET c == NewContact(store, PrimaryParams(req), t)
         IN Outcome(create(store, PrimaryParams(req), t, pos),
                    Success([primaryContactId |-> c.id,
                             emails |-> IF Truthy(c.email) THEN <<c.email>> ELSE <<>>,
                             phoneNumbers |-> IF Truthy(c.phoneNumber)
                                                THEN <<c.phoneNumber>> ELSE <<>>,
                             secondaryContactIds |-> <<>>]),
                    <<"create">>, "newPrimary")

\* groupContactsByPrimary: a Map keyed by primaryId, filled in the order the
\* contacts come; the group of a secondary seen before its root is opened with
\* getById(linkedId).data!, whose createdAt read throws when the fetch failed
PrimaryIdOf(contact) ==
  IF contact.linkPrecedence = "primary" THEN contact.id ELSE contact.linkedId

\* a Map that never finds the key
HasGroupNever(groups, primaryId) == FALSE

HasGroup(groups, primaryId) == \E i \in DOMAIN groups : groups[i].primaryId = primaryId

PushToGroup(groups, primaryId, contact) ==
  [i \in DOMAIN groups |->
     IF groups[i].primaryId = primaryId
       THEN [groups[i] EXCEPT !.contacts = Append(@, contact)]
       ELSE groups[i]]

NewGroup(primaryId, createdAt) ==
  [primaryId |-> primaryId, createdAt |-> createdAt, contacts |-> <<>>]

\* the group of a secondary whose root could not be fetched opened all the same
groupStepRecovering(store, acc, contact, fetchFails) ==
  LET primaryId == PrimaryIdOf(contact)
  IN IF HasGroup(acc.groups, primaryId)
       THEN [acc EXCEPT !.groups = PushToGroup(@, primaryId, contact)]
     ELSE [acc EXCEPT !.fetches = IF contact.linkPrecedence = "primary" THEN @ ELSE @ + 1,
                      !.groups = PushToGroup(
                         Append(@, NewGroup(primaryId, contact.createdAt)),
                         primaryId, contact)]

groupStep(store, acc, contact, fetchFails) ==
  LET primaryId == PrimaryIdOf(contact)
  IN IF HasGroup(acc.groups, primaryId)
       THEN [acc EXCEPT !.groups = PushToGroup(@, primaryId, contact)]
     ELSE IF contact.linkPrecedence = "primary"
       THEN [acc EXCEPT !.groups = PushToGroup(
                 Append(@, NewGroup(primaryId, contact.createdAt)), primaryId, contact)]
     ELSE LET fetched == IF fetchFails THEN [success |-> FALSE, data |-> NoContact]
                                        ELSE getById(store, primaryId)
          IN IF fetched.success
               THEN [acc EXCEPT !.fetches = @ + 1,
                                !.groups = PushToGroup(
                                   Append(@, NewGroup(primaryId, fetched.data.createdAt)),
                                   primaryId, contact)]
               ELSE [acc EXCEPT !.fetches = @ + 1, !.threw = TRUE]

RECURSIVE groupLoop(_, _, _, _)
groupLoop(store, acc, cs, fetchFails) ==
  IF cs = <<>> \/ acc.threw
    THEN acc
    ELSE groupLoop(store, groupStep(store, acc, Head(cs), fetchFails), Tail(cs), fetchFails)

groupContactsByPrimary(store, cs, fetchFails) ==
  groupLoop(store, [groups |-> <<>>, threw |-> FALSE, fetches |-> 0], cs, fetchFails)

\* shouldCreateSecondaryContact
ExactMatch(req, existingContacts) ==
  \E i \in DOMAIN existingContacts :
     /\ existingContacts[i].email = req.email
     /\ existingContacts[i].phoneNumber = req.phoneNumber

HasNewEmail(req, existingContacts) ==
  /\ Truthy(req.email)
  /\ ~\E i \in DOMAIN existingContacts : existingContacts[i].email = req.email

HasNewPhone(req, existingContacts) ==
  /\ Truthy(req.phoneNumber)
  /\ ~\E i \in DOMAIN existingContacts : existingContacts[i].phoneNumber = req.phoneNumber

\* the decision with the new-phone check left out
shouldCreateOnNewEmail(req, existingContacts) ==
  IF ExactMatch(req, existingContacts)
    THEN FALSE
    ELSE HasNewEmail(req, existingContacts)

\* the decision with the new-email check left out
shouldCreateOnNewPhone(req, existingContacts) ==
  IF ExactMatch(req, existingContacts)
    THEN FALSE
    ELSE HasNewPhone(req, existingContacts)

\* the decision taken on the exact-combination check alone
shouldCreateUnlessExact(req, existingContacts) == ~ExactMatch(req, existingContacts)

shouldCreateSecondaryContact(req, existingContacts) ==
  IF ExactMatch(req, existingContacts)
    THEN FALSE
    ELSE HasNewEmail(req, existingContacts) \/ HasNewPhone(req, existingContacts)

\* createSecondaryContact: create { linkedId, linkPrecedence: "secondary", email?,
\* phoneNumber? }; the result of the create is only logged
SecondaryParams(req, primaryContactId) ==
  [email |-> req.email, phoneNumber |-> req.phoneNumber,
   linkedId |-> primaryContactId, linkPrecedence |-> "secondary"]

createSecondaryContact(store, req, primaryContactId, t, pos, fail) ==
  IF fail = "createSecondary"
    THEN store
    ELSE create(store, SecondaryParams(req, primaryContactId), t, pos)

\* buildConsolidatedResponse
RECURSIVE PushAllUnique(_, _)
PushAllUnique(acc, values) ==
  IF values = <<>>
    THEN acc
    ELSE PushAllUnique(IF Truthy(Head(values)) /\ ~Contains(acc, Head(values))
                         THEN Append(acc, Head(values)) ELSE acc,
                       Tail(values))

FirstPrimary(allContacts) ==
  allContacts[CHOOSE i \in DOMAIN allContacts :
                /\ allContacts[i].linkPrecedence = "primary"
                /\ \A j \in 1..(i - 1) : allContacts[j].linkPrecedence # "primary"]

\* the response built with the secondaries' values pushed before the primary's
ConsolidateSecondariesFirst(allContacts) ==
  LET primaryContact == FirstPrimary(allContacts)
      secondaryContacts == SelectSeq(allContacts, LAMBDA c : c.linkPrecedence = "secondary")
  IN [primaryContactId |-> primaryContact.id,
      emails |-> PushAllUnique(<<>>,
         [i \in DOMAIN secondaryContacts |-> secondaryContacts[i].email]
           \o <<primaryContact.email>>),
      phoneNumbers |-> PushAllUnique(<<>>,
         [i \in DOMAIN secondaryContacts |-> secondaryContacts[i].phoneNumber]
           \o <<primaryContact.phoneNumber>>),
      secondaryContactIds |-> [i \in DOMAIN secondaryContacts |-> secondaryContacts[i].id]]

Consolidate(allContacts) ==
  LET primaryContact == FirstPrimary(allContacts)
      secondaryContacts == SelectSeq(allContacts, LAMBDA c : c.linkPrecedence = "secondary")
  IN [primaryContactId |-> primaryContact.id,
      emails |-> PushAllUnique(
         IF Truthy(primaryContact.email) THEN <<primaryContact.email>> ELSE <<>>,
         [i \in DOMAIN secondaryContacts |-> secondaryContacts[i].email]),
      phoneNumbers |-> PushAllUnique(
         IF Truthy(primaryContact.phoneNumber) THEN <<primaryContact.phoneNumber>> ELSE <<>>,
         [i \in DOMAIN secondaryContacts |-> secondaryContacts[i].phoneNumber]),
      secondaryContactIds |-> [i \in DOMAIN secondaryContacts |-> secondaryContacts[i].id]]

buildConsolidatedResponse(store, primaryContactId, fail) ==
  LET linkedContactsResult ==
        IF fail = "reload" THEN [success |-> FALSE, data |-> <<>>]
                           ELSE getLinkedContacts(store, primaryContactId)
      allContacts == linkedContactsResult.data
  IN IF ~linkedContactsResult.success
       THEN Failure("Failed to retrieve linked contacts")
     ELSE IF ~\E i \in DOMAIN allContacts : allContacts[i].linkPrecedence = "primary"
       THEN Thrown
     ELSE Success(Consolidate(allContacts))

\* the try/catch around the body of identifyContact
Catch(res) == IF res = Thrown THEN InternalError ELSE res

\* the first group taken for the older one, whatever the timestamps
IsGroup1OlderAlways(group1, group2) == TRUE

\* the comparison of the two groups turned around
IsGroup1Newer(group1, group2) == group1.createdAt > group2.createdAt

\* linkTwoPrimaryContacts: new Date(group1.createdAt) < new Date(group2.createdAt)
IsGroup1Older(group1, group2) == group1.createdAt < group2.createdAt

\* the first group kept as the older one without the comparison
OlderGroupFirst(groups) == groups[1]

OlderGroup(groups) == IF IsGroup1Older(groups[1], groups[2]) THEN groups[1] ELSE groups[2]

NewerGroup(groups) == IF IsGroup1Older(groups[1], groups[2]) THEN groups[2] ELSE groups[1]

\* the update params with linkPrecedence left out
LinkParamsWithoutPrecedence(id, primaryContactId, t) ==
  [id |-> id, linkedId |-> primaryContactId, linkPrecedence |-> Undefined,
   updatedAt |-> t]

\* the update params with the precedence of a primary
LinkParamsPrimary(id, primaryContactId, t) ==
  [id |-> id, linkedId |-> primaryContactId, linkPrecedence |-> "primary",
   updatedAt |-> t]

LinkParams(id, primaryContactId, t) ==
  [id |-> id, linkedId |-> primaryContactId, linkPrecedence |-> "secondary",
   updatedAt |-> t]

\* the loop run over every record of the newer group, its root included
ToRepointWholeGroup(newerGroup) == newerGroup.contacts

\* "Update all contacts that were linked to the newer primary": the loop runs over
\* newerGroup.contacts, the matched records of that group as they were read
ToRepoint(newerGroup) ==
  SelectSeq(newerGroup.contacts, LAMBDA c : c.linkPrecedence = "secondary")

\* the records of the older group alone
MergedContactsOlderOnly(olderGroup, newerGroup) == olderGroup.contacts

\* const allContacts = [...olderGroup.contacts, ...newerGroup.contacts]
MergedContacts(olderGroup, newerGroup) == olderGroup.contacts \o newerGroup.contacts

\* the result of the demoting update left unread
DemoteFailedUnchecked(fail) == FALSE

\* if (!updateResult.success)
DemoteFailed(fail) == fail = "demote"

RECURSIVE RepointAll(_, _, _, _)
RepointAll(store, cs, primaryContactId, t) ==
  IF cs = <<>>
    THEN store
    ELSE RepointAll(update(store, LinkParams(Head(cs).id, primaryContactId, t)),
                    Tail(cs), primaryContactId, t)

linkTwoPrimaryContacts(store, oplog, contactGroups, req, t, pos, fail) ==
  LET olderGroup == OlderGroup(contactGroups)
      newerGroup == NewerGroup(contactGroups)
      moved == ToRepoint(newerGroup)
      demoted == update(store, LinkParams(newerGroup.primaryId, olderGroup.primaryId, t))
      repointed == IF fail = "repoint" THEN demoted
                   ELSE RepointAll(demoted, moved, olderGroup.primaryId, t)
      allContacts == MergedContacts(olderGroup, newerGroup)
      shouldCreateSecondary == shouldCreateSecondaryContact(req, allContacts)
      final == IF shouldCreateSecondary
                 THEN createSecondaryContact(repointed, req, olderGroup.primaryId, t, pos, fail)
                 ELSE repointed
      oplog2 == oplog \o <<"update">> \o [i \in DOMAIN moved |-> "update"]
                  \o (IF shouldCreateSecondary THEN <<"create">> ELSE <<>>)
                  \o <<"getLinkedContacts">>
  IN IF DemoteFailed(fail)
       THEN Outcome(store, Failure("Failed to link primary contacts"),
                    oplog \o <<"update">>, "twoGroups")
       ELSE Outcome(final,
                    Catch(buildConsolidatedResponse(final, olderGroup.primaryId, fail)),
                    oplog2, "twoGroups")

\* linkTwoPrimaryContacts stopped after the first n of its writes: the demotion,
\* the re-pointing updates in their order, the create
MergeWrites(contactGroups, req) ==
  1 + Len(ToRepoint(NewerGroup(contactGroups)))
    + (IF shouldCreateSecondaryContact(
             req, MergedContacts(OlderGroup(contactGroups), NewerGroup(contactGroups)))
         THEN 1 ELSE 0)

linkPrefix(store, contactGroups, req, t, pos, n) ==
  LET olderGroup == OlderGroup(contactGroups)
      newerGroup == NewerGroup(contactGroups)
      moved == ToRepoint(newerGroup)
      demoted == update(store, LinkParams(newerGroup.primaryId, olderGroup.primaryId, t))
      repointed == RepointAll(demoted,
                              SubSeq(moved, 1, IF n - 1 < Len(moved) THEN n - 1 ELSE Len(moved)),
                              olderGroup.primaryId, t)
  IN IF n = 0 THEN store
     ELSE IF n <= 1 + Len(moved) THEN repointed
     ELSE createSecondaryContact(repointed, req, olderGroup.primaryId, t, pos, "none")

\* the first group of the map taken, whatever the timestamps
FirstGroup(oldest, rest) == oldest

\* contactGroups.reduce((oldest, current) => oldest.createdAt < current.createdAt
\*                                            ? oldest : current)
RECURSIVE OldestGroup(_, _)
OldestGroup(oldest, rest) ==
  IF rest = <<>>
    THEN oldest
    ELSE OldestGroup(IF oldest.createdAt < Head(rest).createdAt THEN oldest ELSE Head(rest),
                     Tail(rest))

\* the input validation left out
NothingProvidedUnchecked(req) == FALSE

\* if (!request.email && !request.phoneNumber)
NothingProvided(req) == ~Truthy(req.email) /\ ~Truthy(req.phoneNumber)

\* identifyContact: the whole call on the table `store`, at clock reading t, with
\* a created item landing at `pos` of the scan order and the store operations of
\* kind `fail` failing
identifyContact(store, req, t, pos, fail) ==
  IF NothingProvided(req)
    THEN Outcome(store, Failure("At least one of email or phoneNumber must be provided"),
                 <<>>, "invalid")
  ELSE IF fail = "find"
    THEN Outcome(store, Failure("Failed to search for existing contacts"),
                 <<"findByEmailOrPhone">>, "findFailed")
  ELSE
    LET existingContacts == findByEmailOrPhone(store, req)
        grouped == groupContactsByPrimary(store, existingContacts, fail = "rootFetch")
        contactGroups == grouped.groups
        oplog == <<"findByEmailOrPhone">> \o [i \in 1..grouped.fetches |-> "getById"]
    IN IF existingContacts = <<>>
         THEN LET o == createNewPrimaryContact(store, req, t, pos, fail)
              IN Outcome(o.store, o.result, <<"findByEmailOrPhone">> \o o.ops, o.branch)
       ELSE IF grouped.threw
         THEN Outcome(store, InternalError, oplog, "groupThrew")
       ELSE IF Len(contactGroups) = 1
         THEN LET primaryContactId == contactGroups[1].primaryId
                  shouldCreateSecondary ==
                    shouldCreateSecondaryContact(req, contactGroups[1].contacts)
                  final == IF shouldCreateSecondary
                             THEN createSecondaryContact(store, req, primaryContactId,
                                                         t, pos, fail)
                             ELSE store
              IN Outcome(final,
                         Catch(buildConsolidatedResponse(final, primaryContactId, fail)),
                         oplog \o (IF shouldCreateSecondary THEN <<"create">> ELSE <<>>)
                               \o <<"getLinkedContacts">>,
                         "oneGroup")
       ELSE IF Len(contactGroups) = 2
         THEN linkTwoPrimaryContacts(store, oplog, contactGroups, req, t, pos, fail)
       ELSE LET oldestGroup == OldestGroup(contactGroups[1], Tail(contactGroups))
            IN Outcome(store,
                       Catch(buildConsolidatedResponse(store, oldestGroup.primaryId, fail)),
                       oplog \o <<"getLinkedContacts">>, "manyGroups")

\* ContactController.identify: the status code answered for the service's
\* result; the catch block answers for an exception the service lets through
identify(res) ==
  IF res = Thrown THEN 500
  ELSE IF ~res.success THEN 400
  ELSE 200

\* ------------------------------------------------------------ the system
NoRequest == [email |-> Undefined, phoneNumber |-> Undefined]

\* The callers whose requests the server handles side by side, each call an
\* async function that yields at every await.
Callers == {"a", "b"}

\* no response is kept
NotKept == [kept |-> FALSE, values |-> {}]

\* the email and phone values a successful response to the request lists
Listing(req, res) ==
  IF res.success
    THEN {<<req, "email", res.data.emails[i]>> : i \in DOMAIN res.data.emails}
           \cup {<<req, "phoneNumber", res.data.phoneNumbers[i]>> :
                    i \in DOMAIN res.data.phoneNumbers}
    ELSE {}

NoCall == [pc |-> "idle", req |-> NoRequest, branch |-> "none", pending |-> <<>>,
           root |-> NoId, head |-> NoContact, result |-> Failure("")]

Init ==
  /\ contacts = <<>>
  /\ now = 1
  /\ pre = <<>>
  /\ request = NoRequest
  /\ result = Failure("")
  /\ ops = <<>>
  /\ branch = "none"
  /\ failed = "none"
  /\ createdAsPrimary = {}
  /\ crashedFrom = <<>>
  /\ calls = [p \in Callers |-> NoCall]
  /\ base = <<>>
  /\ round = <<>>
  /\ listed = NotKept

\* The code only compares emails and phone numbers for equality, so a request
\* brings the values the table already holds or the next unused one.
UsedEmails == {contacts[i].email : i \in DOMAIN contacts} \ {Undefined}

UsedPhones == {contacts[i].phoneNumber : i \in DOMAIN contacts} \ {Undefined}

KnownOrNext(pool, used) ==
  {pool[i] : i \in {j \in DOMAIN pool : j <= Cardinality(used) + 1}}

Requests ==
  [email : KnownOrNext(Emails, UsedEmails) \cup {Undefined},
   phoneNumber : KnownOrNext(Phones, UsedPhones) \cup {Undefined}]

\* The store operations a call issues, by the kind of their call site: an
\* operation that is never issued cannot fail.
Issues(o, kind) ==
  CASE kind = "find" -> Contains(o.ops, "findByEmailOrPhone")
    [] kind = "rootFetch" -> Contains(o.ops, "getById")
    [] kind = "createPrimary" -> o.branch = "newPrimary"
    [] kind = "createSecondary" -> o.branch # "newPrimary" /\ Contains(o.ops, "create")
    [] kind = "demote" -> o.branch = "twoGroups"
    [] kind = "repoint" ->
         o.branch = "twoGroups" /\ Len(SelectSeq(o.ops, LAMBDA x : x = "update")) > 1
    [] kind = "reload" -> Contains(o.ops, "getLinkedContacts")
    [] OTHER -> FALSE

\* the ids of the records of `store` that `before` lacks and that are primaries
NewPrimaries(before, store) ==
  {c.id : c \in {d \in Range(store) : ~HasId(before, d.id) /\ d.linkPrecedence = "primary"}}

\* One identify call, from the request to the returned result, with nothing
\* running beside it; the clock reads `next` when a later call creates an item,
\* and the table grows to `limit` records at most.
ReturnedAt(o, req, fail, next, limit) ==
  /\ Len(o.store) <= limit
  /\ contacts' = o.store
  /\ pre' = contacts
  /\ request' = req
  /\ result' = o.result
  /\ ops' = o.ops
  /\ branch' = o.branch
  /\ failed' = fail
  /\ createdAsPrimary' = createdAsPrimary \cup NewPrimaries(contacts, o.store)
  /\ crashedFrom' = IF branch = "none" /\ req = request THEN crashedFrom ELSE <<>>
  /\ listed' \in IF listed.kept /\ listed.values = {}
                    THEN {listed, [listed EXCEPT !.values = Listing(req, o.result)]}
                    ELSE {listed}
  /\ UNCHANGED <<calls, base, round>>
  /\ now' = IF Len(o.store) > Len(contacts) THEN next ELSE now

\* A call that creates an item places it anywhere in the scan order.
CallWithin(limit, req, fail, next) ==
  \E first \in {identifyContact(contacts, req, now, 0, fail)} :
     IF Len(first.store) = Len(contacts)
       THEN ReturnedAt(first, req, fail, next, limit)
       ELSE \E pos \in 0..Len(contacts) :
               \E o \in {identifyContact(contacts, req, now, pos, fail)} :
                  ReturnedAt(o, req, fail, next, limit)

CallAt(req, fail, next) == CallWithin(MaxContacts, req, fail, next)

\* The clock has moved on by the next create.
Call(req, fail) == CallAt(req, fail, now + 1)

\* a caller sends a request
Identify ==
  /\ branch = "none"
  /\ \E req \in Requests : Call(req, "none")

\* the caller sends the request it has just been answered once more
Repeat ==
  /\ branch # "none"
  /\ Call(request, "none")

\* the caller has taken the result
Return ==
  /\ branch # "none"
  /\ pre' = <<>>
  /\ request' = NoRequest
  /\ result' = Failure("")
  /\ ops' = <<>>
  /\ branch' = "none"
  /\ failed' = "none"
  /\ crashedFrom' = <<>>
  /\ UNCHANGED <<contacts, now, createdAsPrimary, calls, base, round, listed>>

Next == Identify \/ Repeat \/ Return

Spec == Init /\ [][Next]_vars

\* a call during which the store operations of one kind fail
IdentifyFailing ==
  /\ branch = "none"
  /\ \E req \in Requests : \E fail \in FailKinds :
        /\ Issues(identifyContact(contacts, req, now, 0, "none"), fail)
        /\ Call(req, fail)

NextFail == Identify \/ IdentifyFailing \/ Repeat \/ Return

SpecFail == Init /\ [][NextFail]_vars

\* a call whose create falls into the same millisecond as the next create:
\* createdAt is new Date().toISOString(), a wall-clock reading
IdentifyTied ==
  /\ branch = "none"
  /\ \E req \in Requests :
        /\ Len(identifyContact(contacts, req, now, 0, "none").store) > Len(contacts)
        /\ CallAt(req, "none", now)

NextTie == Identify \/ IdentifyTied \/ Repeat \/ Return

SpecTie == Init /\ [][NextTie]_vars

\* The process stops while a call is merging two groups, after one or more of
\* the call's writes; the caller gets no answer.
Crash ==
  /\ branch = "none"
  /\ \E req \in Requests :
        /\ identifyContact(contacts, req, now, 0, "none").branch = "twoGroups"
        /\ \E groups \in {groupContactsByPrimary(
                              contacts, findByEmailOrPhone(contacts, req), FALSE).groups} :
              \E n \in 1..MergeWrites(groups, req), pos \in 0..Len(contacts) :
                 \E stopped \in {linkPrefix(contacts, groups, req, now, pos, n)} :
                    /\ Len(stopped) <= MaxContacts
                    /\ Len(stopped) = Len(contacts) => pos = 0
                    /\ contacts' = stopped
                    /\ now' = IF Len(stopped) > Len(contacts) THEN now + 1 ELSE now
                    /\ crashedFrom' = contacts
                    /\ request' = req
  /\ UNCHANGED <<pre, result, ops, branch, failed, createdAsPrimary,
                  calls, base, round, listed>>

\* the caller of the stopped call sends its request again
Retry ==
  /\ branch = "none"
  /\ crashedFrom # <<>>
  /\ Call(request, "none")

NextCrash == Identify \/ Crash \/ Retry \/ Repeat \/ Return

SpecCrash == Init /\ [][NextCrash]_vars

\* ------------------------------------------------------------ longer histories
\* The calls of `steps`, each a request and the place of its new item in the
\* scan order, answered one after the other from the table of `state` on.
RECURSIVE Replay(_, _)
Replay(state, steps) ==
  IF steps = <<>>
    THEN state
    ELSE LET o == identifyContact(state.store, Head(steps).req, state.now,
                                  Head(steps).pos, "none")
         IN Replay([store |-> o.store,
                    now |-> IF Len(o.store) > Len(state.store) THEN state.now + 1
                                                                ELSE state.now,
                    primaries |-> state.primaries \cup NewPrimaries(state.store, o.store)],
                   Tail(steps))

Empty == [store |-> <<>>, now |-> 1, primaries |-> {}]

Sent(email, phoneNumber, pos) ==
  [req |-> [email |-> email, phoneNumber |-> phoneNumber], pos |-> pos]

\* {e1}, {e2, p1}, {e2, p2}, {e1, p1}: two primaries, a secondary of the younger
\* one, and the merge of the two primaries
AfterMerge ==
  Replay(Empty, <<Sent(Emails[1], Undefined, 0), Sent(Emails[2], Phones[1], 1),
                  Sent(Emails[2], Phones[2], 2), Sent(Emails[1], Phones[1], 0)>>)

\* {e1, p1}, {e2}, {e2, p2}: a primary, and a younger primary with a secondary
ChainBesidePrimary ==
  Replay(Empty, <<Sent(Emails[1], Phones[1], 0), Sent(Emails[2], Undefined, 1),
                  Sent(Emails[2], Phones[2], 0)>>)

GrownStarts == {AfterMerge, ChainBesidePrimary}

InitGrown ==
  /\ \E start \in GrownStarts :
        /\ contacts = start.store
        /\ now = start.now
        /\ createdAsPrimary = start.primaries
  /\ pre = <<>>
  /\ request = NoRequest
  /\ result = Failure("")
  /\ ops = <<>>
  /\ branch = "none"
  /\ failed = "none"
  /\ crashedFrom = <<>>
  /\ calls = [p \in Callers |-> NoCall]
  /\ base = <<>>
  /\ round = <<>>
  /\ listed = NotKept

IdentifyGrown ==
  /\ branch = "none"
  /\ \E req \in Requests : CallWithin(MaxGrownContacts, req, "none", now + 1)

RepeatGrown ==
  /\ branch # "none"
  /\ CallWithin(MaxGrownContacts, request, "none", now + 1)

NextGrown == IdentifyGrown \/ RepeatGrown \/ Return

SpecGrown == InitGrown /\ [][NextGrown]_vars

\* ------------------------------------------------------------ calls side by side
\* identifyContact is a chain of awaits on the store with no lock and no
\* transaction around it: between any two store operations of one call the
\* operations of another call can run.
Create(params) ==
  [op |-> "create", id |-> NoId, email |-> params.email,
   phoneNumber |-> params.phoneNumber, linkedId |-> params.linkedId,
   linkPrecedence |-> params.linkPrecedence]

Update(id, primaryContactId) ==
  [op |-> "update", id |-> id, email |-> Undefined, phoneNumber |-> Undefined,
   linkedId |-> primaryContactId, linkPrecedence |-> "secondary"]

PlanOf(br, writes, primaryContactId) ==
  [branch |-> br, pending |-> writes, root |-> primaryContactId]

\* What identifyContact decides from its matching scan and its grouping reads:
\* the branch, the writes it goes on to issue and the root it answers for.  The
\* grouping reads fetch createdAt, which no write changes.
Plan(store, req) ==
  LET existingContacts == findByEmailOrPhone(store, req)
      contactGroups == groupContactsByPrimary(store, existingContacts, FALSE).groups
  IN IF NothingProvided(req)
       THEN PlanOf("invalid", <<>>, NoId)
     ELSE IF existingContacts = <<>>
       THEN PlanOf("newPrimary", <<Create(PrimaryParams(req))>>, NoId)
     ELSE IF Len(contactGroups) = 1
       THEN LET primaryContactId == contactGroups[1].primaryId
            IN PlanOf("oneGroup",
                      IF shouldCreateSecondaryContact(req, contactGroups[1].contacts)
                        THEN <<Create(SecondaryParams(req, primaryContactId))>>
                        ELSE <<>>,
                      primaryContactId)
     ELSE IF Len(contactGroups) = 2
       THEN LET olderGroup == OlderGroup(contactGroups)
                newerGroup == NewerGroup(contactGroups)
                moved == ToRepoint(newerGroup)
            IN PlanOf("twoGroups",
                      <<Update(newerGroup.primaryId, olderGroup.primaryId)>>
                        \o [i \in DOMAIN moved |-> Update(moved[i].id, olderGroup.primaryId)]
                        \o (IF shouldCreateSecondaryContact(
                                   req, MergedContacts(olderGroup, newerGroup))
                              THEN <<Create(SecondaryParams(req, olderGroup.primaryId))>>
                              ELSE <<>>),
                      olderGroup.primaryId)
     ELSE PlanOf("manyGroups", <<>>,
                 OldestGroup(contactGroups[1], Tail(contactGroups)).primaryId)

Active(p) == calls[p].pc \notin {"idle", "done"}

Quiescent == \A p \in Callers : ~Active(p)

PendingCreates(p) ==
  Len(SelectSeq(calls[p].pending, LAMBDA w : w.op = "create"))

RECURSIVE SumPendingCreates(_)
SumPendingCreates(P) ==
  IF P = {} THEN 0
  ELSE LET p == CHOOSE q \in P : TRUE
       IN PendingCreates(p) + SumPendingCreates(P \ {p})

\* the values the table holds or a call in progress brings, and the next one
ActiveRequests == {calls[p].req : p \in {q \in Callers : Active(q)}}

ConcurrentRequests ==
  [email : KnownOrNext(Emails, UsedEmails \cup ({r.email : r \in ActiveRequests} \ {Undefined}))
             \cup {Undefined},
   phoneNumber : KnownOrNext(Phones, UsedPhones
                               \cup ({r.phoneNumber : r \in ActiveRequests} \ {Undefined}))
                   \cup {Undefined}]

\* more calls than two began since the table was last at rest
ManyRequests == <<NoRequest, NoRequest, NoRequest>>

seqVars == <<pre, request, result, ops, branch, failed, crashedFrom, listed>>

\* A call begins: validation, the matching scan, the grouping reads.
Begin(p) ==
  /\ ~Active(p)
  /\ \E req \in ConcurrentRequests :
        \E plan \in {Plan(contacts, req)} :
           /\ \/ ~\E i \in DOMAIN plan.pending : plan.pending[i].op = "create"
              \/ Len(contacts) + SumPendingCreates(Callers \ {p}) + 1
                    <= MaxConcurrentContacts
           /\ calls' = [calls EXCEPT ![p] =
                 [pc |-> IF plan.branch = "invalid" THEN "done" ELSE "found",
                  req |-> req, branch |-> plan.branch, pending |-> plan.pending,
                  root |-> plan.root, head |-> NoContact,
                  result |-> IF plan.branch = "invalid"
                               THEN Failure("At least one of email or phoneNumber must be provided")
                               ELSE Failure("")]]
           /\ base' = IF Quiescent THEN contacts ELSE base
           /\ round' = IF Quiescent THEN <<req>>
                       ELSE IF Len(round) < 2 THEN Append(round, req)
                       ELSE ManyRequests
  /\ UNCHANGED <<contacts, now, createdAsPrimary>>
  /\ UNCHANGED seqVars

\* The next write of a call reaches the store: a create, which for a new primary
\* is answered from the created item alone, or an update.
Write(p) ==
  /\ calls[p].pc = "found"
  /\ calls[p].pending # <<>>
  /\ LET w == Head(calls[p].pending)
         rest == Tail(calls[p].pending)
     IN IF w.op = "create"
          THEN \E pos \in 0..Len(contacts) :
                 LET c == NewContact(contacts, w, now)
                 IN /\ contacts' = create(contacts, w, now, pos)
                    /\ now' = now + 1
                    /\ createdAsPrimary' = createdAsPrimary \cup NewPrimaries(contacts, contacts')
                    /\ calls' = [calls EXCEPT ![p] =
                          IF calls[p].branch = "newPrimary"
                            THEN [@ EXCEPT !.pc = "done", !.pending = rest,
                                    !.result = Success(
                                       [primaryContactId |-> c.id,
                                        emails |-> IF Truthy(c.email) THEN <<c.email>> ELSE <<>>,
                                        phoneNumbers |-> IF Truthy(c.phoneNumber)
                                                           THEN <<c.phoneNumber>> ELSE <<>>,
                                        secondaryContactIds |-> <<>>])]
                            ELSE [@ EXCEPT !.pending = rest]]
          ELSE /\ contacts' = update(contacts, LinkParams(w.id, w.linkedId, now))
               /\ calls' = [calls EXCEPT ![p].pending = rest]
               /\ UNCHANGED <<now, createdAsPrimary>>
  /\ UNCHANGED <<base, round>>
  /\ UNCHANGED seqVars

\* getLinkedContacts, first await: getById of the root
ReloadRoot(p) ==
  /\ calls[p].pc = "found"
  /\ calls[p].pending = <<>>
  /\ calls' = [calls EXCEPT ![p].pc = "reload",
                            ![p].head = getById(contacts, calls[p].root).data]
  /\ UNCHANGED <<contacts, now, createdAsPrimary, base, round>>
  /\ UNCHANGED seqVars

\* getLinkedContacts, second await: the scan for the linked items, and the
\* response built from the two reads
ReloadLinked(p) ==
  /\ calls[p].pc = "reload"
  /\ LET allContacts == <<calls[p].head>> \o LinkedScan(contacts, calls[p].root)
     IN calls' = [calls EXCEPT ![p].pc = "done",
                               ![p].result =
                  IF \E i \in DOMAIN allContacts : allContacts[i].linkPrecedence = "primary"
                    THEN Success(Consolidate(allContacts))
                    ELSE InternalError]
  /\ UNCHANGED <<contacts, now, createdAsPrimary, base, round>>
  /\ UNCHANGED seqVars

Step(p) == Begin(p) \/ Write(p) \/ ReloadRoot(p) \/ ReloadLinked(p)

NextConcurrent == \E p \in Callers : Step(p)

\* The tables the side-by-side calls start from: the empty one, and the one
\* that the calls {e1, p1}, {e2, p2}, {e2, p3}, answered one after the other,
\* leave behind: two primaries and a secondary of the younger one.
TwoChains ==
  LET first == identifyContact(<<>>, [email |-> Emails[1], phoneNumber |-> Phones[1]],
                               1, 0, "none").store
      second == identifyContact(first, [email |-> Emails[2], phoneNumber |-> Phones[2]],
                                2, 1, "none").store
  IN identifyContact(second, [email |-> Emails[2], phoneNumber |-> Phones[3]],
                     3, 0, "none").store

StartTables == {<<>>, TwoChains}

InitConcurrent ==
  /\ contacts \in StartTables
  /\ now = Len(contacts) + 1
  /\ createdAsPrimary = NewPrimaries(<<>>, contacts)
  /\ pre = <<>>
  /\ request = NoRequest
  /\ result = Failure("")
  /\ ops = <<>>
  /\ branch = "none"
  /\ failed = "none"
  /\ crashedFrom = <<>>
  /\ calls = [p \in Callers |-> NoCall]
  /\ base = <<>>
  /\ round = <<>>
  /\ listed = NotKept

SpecConcurrent == InitConcurrent /\ [][NextConcurrent]_vars

\* ------------------------------------------------------------ responses on record
\* calls answered one after the other, with the values of one successful
\* response, any one, kept by the caller together with its request
InitRecorded ==
  /\ contacts = <<>>
  /\ now = 1
  /\ pre = <<>>
  /\ request = NoRequest
  /\ result = Failure("")
  /\ ops = <<>>
  /\ branch = "none"
  /\ failed = "none"
  /\ createdAsPrimary = {}
  /\ crashedFrom = <<>>
  /\ calls = [p \in Callers |-> NoCall]
  /\ base = <<>>
  /\ round = <<>>
  /\ listed = [kept |-> TRUE, values |-> {}]

SpecRecorded == InitRecorded /\ [][Next]_vars

\* ------------------------------------------------------------ after a race
\* The table that two calls with the request {e1, p1}, run side by side on the
\* empty table, leave when both found no match: each has created its primary,
\* the second one at `pos` of the scan order.
Duplicates(pos) ==
  LET req == [email |-> Emails[1], phoneNumber |-> Phones[1]]
      first == create(<<>>, PrimaryParams(req), 1, 0)
  IN create(first, PrimaryParams(req), Len(first) + 1, pos)

InitAfterRace ==
  /\ \E pos \in {0, 1} : contacts = Duplicates(pos)
  /\ now = Len(contacts) + 1
  /\ createdAsPrimary = NewPrimaries(<<>>, contacts)
  /\ pre = <<>>
  /\ request = NoRequest
  /\ result = Failure("")
  /\ ops = <<>>
  /\ branch = "none"
  /\ failed = "none"
  /\ crashedFrom = <<>>
  /\ calls = [p \in Callers |-> NoCall]
  /\ base = <<>>
  /\ round = <<>>
  /\ listed = NotKept

\* calls answered one after the other from then on
SpecAfterRace == InitAfterRace /\ [][Next]_vars

\* ------------------------------------------------------------ properties
\* the state describes a finished call: its request, what it found and what it left
Called == branch # "none"

Writes(oplog) == SelectSeq(oplog, LAMBDA x : x \in {"create", "update"})

IsPrimary(store, id) == HasId(store, id) /\ ById(store, id).linkPrecedence = "primary"

\* a chain: a primary and the records whose linkedId is that primary
Chain(store, rootId) ==
  {c \in Range(store) : c.id = rootId \/ c.linkedId = rootId}

\* the records of the table the call found that carry the request's email or
\* its phone number, and the roots they hang from
Matched ==
  {c \in Range(pre) :
     \/ request.email # Undefined /\ c.email = request.email
     \/ request.phoneNumber # Undefined /\ c.phoneNumber = request.phoneNumber}

RootOf(c) == IF c.linkedId = NoId THEN c.id ELSE c.linkedId

MatchedRoots == {RootOf(c) : c \in Matched}

\* the matched records belong to exactly n chains
MatchedChains(n) ==
  /\ Called
  /\ Cardinality(MatchedRoots) = n
  /\ \A r \in MatchedRoots : IsPrimary(pre, r)

OlderRoot ==
  CHOOSE r \in MatchedRoots :
    \A q \in MatchedRoots : ById(pre, r).createdAt <= ById(pre, q).createdAt

NewerRoot == CHOOSE r \in MatchedRoots : r # OlderRoot

TwoChainsOfDifferentAge ==
  /\ MatchedChains(2)
  /\ \A r, q \in MatchedRoots : r # q => ById(pre, r).createdAt # ById(pre, q).createdAt

Created == {c \in Range(contacts) : ~HasId(pre, c.id)}

Untouched == \A c \in Range(pre) : c \in Range(contacts)

\* C1: every secondary's linkedId is the id of an existing record that is primary
C1_ChainIntegrity ==
  \A c \in Range(contacts) :
     c.linkPrecedence = "secondary" => IsPrimary(contacts, c.linkedId)

\* C2: when the matched records belong to two chains whose roots differ in
\* createdAt, the older root stays primary, the newer root becomes a secondary of
\* the older one and the response names the older root, in whatever order the
\* records were matched
C2_OldestWins ==
  TwoChainsOfDifferentAge =>
     /\ IsPrimary(contacts, OlderRoot)
     /\ ById(contacts, NewerRoot).linkPrecedence = "secondary"
     /\ ById(contacts, NewerRoot).linkedId = OlderRoot
     /\ result.success
     /\ result.data.primaryContactId = OlderRoot

\* C2 happens with the newer root matched before the older one
C2_Witness ==
  /\ TwoChainsOfDifferentAge
  /\ \E i, j \in DOMAIN pre :
        /\ i < j
        /\ pre[i] \in Matched /\ RootOf(pre[i]) = NewerRoot
        /\ pre[j] \in Matched /\ RootOf(pre[j]) = OlderRoot

\* C3: after a two-chain merge the response lists the emails and phone numbers of
\* every record of the two chains and, but for the surviving primary, their ids
C3_MergeResponseComplete ==
  TwoChainsOfDifferentAge =>
     /\ result.success
     /\ \A c \in Chain(pre, OlderRoot) \cup Chain(pre, NewerRoot) :
           /\ Truthy(c.email) => Contains(result.data.emails, c.email)
           /\ Truthy(c.phoneNumber) => Contains(result.data.phoneNumbers, c.phoneNumber)
           /\ c.id # OlderRoot => Contains(result.data.secondaryContactIds, c.id)

\* C4: a request that matches nothing creates one primary with the request's
\* fields and no linkedId, and is answered with that record alone
NoMatch == Called /\ request # NoRequest /\ Matched = {}

C4_NewPrimary ==
  NoMatch =>
     /\ Untouched
     /\ Len(contacts) = Len(pre) + 1
     /\ \A c \in Created :
           /\ c.linkPrecedence = "primary"
           /\ c.linkedId = NoId
           /\ c.email = request.email
           /\ c.phoneNumber = request.phoneNumber
           /\ result = Success(
                 [primaryContactId |-> c.id,
                  emails |-> IF request.email # Undefined
                               THEN <<request.email>> ELSE <<>>,
                  phoneNumbers |-> IF request.phoneNumber # Undefined
                                     THEN <<request.phoneNumber>> ELSE <<>>,
                  secondaryContactIds |-> <<>>])

\* C4 happens for a request with a single field on a table that holds records
C4_Witness ==
  /\ NoMatch
  /\ pre # <<>>
  /\ request.email = Undefined
  /\ Cardinality(Created) = 1

\* the one chain the matched records belong to, and what the request adds to it
TheRoot == CHOOSE r \in MatchedRoots : TRUE

OnChain(field, value) == \E c \in Chain(pre, TheRoot) : c[field] = value

BringsNew ==
  \/ request.email # Undefined /\ ~OnChain("email", request.email)
  \/ request.phoneNumber # Undefined /\ ~OnChain("phoneNumber", request.phoneNumber)

\* C5: a request that matches one chain and brings an email or a phone number no
\* member of the chain has creates one secondary of the chain's root with the
\* request's fields, and the response names the root and lists the new record
C5_SecondaryAttached ==
  (MatchedChains(1) /\ BringsNew) =>
     /\ Untouched
     /\ Len(contacts) = Len(pre) + 1
     /\ \A c \in Created :
           /\ c.linkPrecedence = "secondary"
           /\ c.linkedId = TheRoot
           /\ c.email = request.email
           /\ c.phoneNumber = request.phoneNumber
           /\ result.success
           /\ result.data.primaryContactId = TheRoot
           /\ Contains(result.data.secondaryContactIds, c.id)

\* C5 happens on a chain that has a secondary already, matched through it alone
C5_Witness ==
  /\ MatchedChains(1)
  /\ BringsNew
  /\ Cardinality(Created) = 1
  /\ \A c \in Matched : c.linkPrecedence = "secondary"

\* the consolidated view of a chain, whatever the order of its lists
IsViewOf(data, store, rootId) ==
  /\ data.primaryContactId = rootId
  /\ Range(data.emails) = {c.email : c \in Chain(store, rootId)} \ {Undefined}
  /\ Range(data.phoneNumbers) = {c.phoneNumber : c \in Chain(store, rootId)} \ {Undefined}
  /\ Range(data.secondaryContactIds) = {c.id : c \in Chain(store, rootId)} \ {rootId}

\* C6: a request that matches one chain and brings nothing the chain does not
\* have writes nothing and is answered with the chain's consolidated view
C6_NothingNewNoWrite ==
  (MatchedChains(1) /\ ~BringsNew) =>
     /\ contacts = pre
     /\ Writes(ops) = <<>>
     /\ result.success
     /\ IsViewOf(result.data, pre, TheRoot)

\* C6 happens with the request's two values on two different records of the chain
C6_Witness ==
  /\ MatchedChains(1)
  /\ ~BringsNew
  /\ request.email # Undefined
  /\ request.phoneNumber # Undefined
  /\ ~\E c \in Range(pre) :
        c.email = request.email /\ c.phoneNumber = request.phoneNumber

\* C7: the same request sent again right after its answer writes nothing and is
\* answered as before; on an empty table both answers list no secondary
C7_Idempotent ==
  [][(branch # "none" /\ branch' # "none") =>
       /\ contacts' = contacts
       /\ Writes(ops') = <<>>
       /\ result' = result
       /\ pre = <<>> => /\ result.data.secondaryContactIds = <<>>
                        /\ result'.data.secondaryContactIds = <<>>]_vars

\* C7 happens when the request whose call created the latest secondary is answered
\* again without a write
C7_Witness ==
  /\ Called
  /\ pre = contacts
  /\ result.success
  /\ Writes(ops) = <<>>
  /\ \E c \in Range(contacts) :
        /\ c.id = Len(contacts)
        /\ c.linkPrecedence = "secondary"
        /\ c.email = request.email
        /\ c.phoneNumber = request.phoneNumber

\* C8: a request with neither field is answered with a failure without any store
\* operation, and the table is as it was
C8_InvalidRequest ==
  (Called /\ request = NoRequest) =>
     /\ ~result.success
     /\ ops = <<>>
     /\ contacts = pre

\* C8 happens on a table that holds records
C8_Witness == Called /\ request = NoRequest /\ pre # <<>>

\* C9: a call during which a store operation failed is answered with a failure
C9_FailuresSurfaced == (Called /\ failed # "none") => ~result.success

\* the record the response names as primary
ResponsePrimary == ById(contacts, result.data.primaryContactId)

\* C10 as stated: the first email and the first phone number of a response are
\* those stored on the primary record
C10_FirstFromPrimary ==
  (Called /\ result.success) =>
     /\ result.data.emails # <<>> => result.data.emails[1] = ResponsePrimary.email
     /\ result.data.phoneNumbers # <<>> =>
          result.data.phoneNumbers[1] = ResponsePrimary.phoneNumber

\* C10 amended: when the primary record stores an email it is the first email of
\* the response, and when it stores a phone number it is the first phone number
C10_PrimaryValueFirst ==
  (Called /\ result.success) =>
     /\ IsPrimary(contacts, result.data.primaryContactId)
     /\ ResponsePrimary.email # Undefined =>
          /\ result.data.emails # <<>>
          /\ result.data.emails[1] = ResponsePrimary.email
     /\ ResponsePrimary.phoneNumber # Undefined =>
          /\ result.data.phoneNumbers # <<>>
          /\ result.data.phoneNumbers[1] = ResponsePrimary.phoneNumber

\* C10 happens with a secondary that carries other values scanned before its primary
C10_Witness ==
  /\ Called
  /\ result.success
  /\ Len(result.data.emails) > 1
  /\ Len(result.data.phoneNumbers) > 1
  /\ \E i, j \in DOMAIN contacts :
        /\ i < j
        /\ contacts[j].id = result.data.primaryContactId
        /\ contacts[i].linkedId = contacts[j].id

\* the records linked to rootId, oldest first
LinkedTo(store, rootId) == {c \in Range(store) : c.linkedId = rootId}

RECURSIVE ByCreatedAt(_)
ByCreatedAt(S) ==
  IF S = {}
    THEN <<>>
    ELSE LET first == CHOOSE c \in S : \A d \in S : c.createdAt <= d.createdAt
         IN <<first>> \o ByCreatedAt(S \ {first})

\* the values of a sequence that are present, each once, first occurrence first
RECURSIVE FirstOccurrences(_)
FirstOccurrences(values) ==
  IF values = <<>>
    THEN <<>>
    ELSE LET front == FirstOccurrences(SubSeq(values, 1, Len(values) - 1))
             last == values[Len(values)]
         IN IF last = Undefined \/ Contains(front, last) THEN front ELSE Append(front, last)

FieldInAgeOrder(field) ==
  LET secondaries == ByCreatedAt(LinkedTo(contacts, result.data.primaryContactId))
  IN FirstOccurrences(<<ResponsePrimary[field]>>
                        \o [i \in DOMAIN secondaries |-> secondaries[i][field]])

\* C11: a successful response lists the primary's email, then the emails of the
\* records linked to the primary in ascending createdAt order, each value once;
\* the phone numbers likewise
C11_ValuesInAgeOrder ==
  (Called /\ result.success) =>
     /\ result.data.emails = FieldInAgeOrder("email")
     /\ result.data.phoneNumbers = FieldInAgeOrder("phoneNumber")

\* C12: secondaryContactIds of a successful response is the ids of the records
\* linked to the returned primary, each once, in ascending createdAt order, and
\* without the primary's id
C12_SecondaryIdsInAgeOrder ==
  (Called /\ result.success) =>
     LET ids == result.data.secondaryContactIds
     IN /\ Range(ids) = {c.id : c \in LinkedTo(contacts, result.data.primaryContactId)}
        /\ \A i, j \in DOMAIN ids : i # j => ids[i] # ids[j]
        /\ \A i, j \in DOMAIN ids :
              i < j => ById(contacts, ids[i]).createdAt <= ById(contacts, ids[j]).createdAt
        /\ ~Contains(ids, result.data.primaryContactId)

\* C16: a record has a linkedId exactly when it is a secondary
C16_LinkedIffSecondary ==
  \A c \in Range(contacts) : c.linkedId # NoId <=> c.linkPrecedence = "secondary"

\* the records the call found as primaries and left as secondaries
Demoted ==
  {c \in Range(contacts) : IsPrimary(pre, c.id) /\ c.linkPrecedence = "secondary"}

\* C16 happens when a call has demoted a primary
C16_Witness == Called /\ Demoted # {}

\* C18: a step never removes a record and never changes the id, email,
\* phoneNumber or createdAt of a record
C18_RecordsKept ==
  [][\A c \in Range(contacts) :
        \E d \in Range(contacts') :
           /\ d.id = c.id
           /\ d.email = c.email
           /\ d.phoneNumber = c.phoneNumber
           /\ d.createdAt = c.createdAt]_vars

\* C18 happens when a call has updated a record and created none
C18_Witness ==
  /\ Called
  /\ Len(contacts) = Len(pre)
  /\ \E c \in Range(pre) : c \notin Range(contacts)

\* C20: every record has an email or a phone number, none holds a placeholder,
\* and a created record stores the fields of its request and no other
C20_FieldsAsRequested ==
  /\ \A c \in Range(contacts) :
        /\ c.email # Undefined \/ c.phoneNumber # Undefined
        /\ c.email # "" /\ c.phoneNumber # ""
  /\ Called => \A c \in Created :
                  c.email = request.email /\ c.phoneNumber = request.phoneNumber

\* C20 happens when a secondary is created on a chain whose primary came from a
\* request with the phone number alone
C20_Witness ==
  /\ Called
  /\ \E c \in Created :
        /\ c.linkPrecedence = "secondary"
        /\ IsPrimary(contacts, c.linkedId)
        /\ ById(contacts, c.linkedId).email = Undefined

\* the records created as primaries that are now linked to the record rootId
FoldedInto(rootId) ==
  {c \in Range(contacts) : c.linkedId = rootId /\ c.id \in createdAsPrimary}

\* C19 as stated: a primary's createdAt is strictly smaller than that of every
\* demoted former primary linked to it
C19_PrimaryStrictlyOldest ==
  \A p \in Range(contacts) :
     p.linkPrecedence = "primary" =>
        \A c \in FoldedInto(p.id) : p.createdAt < c.createdAt

\* C19 amended: a primary's createdAt is smaller than or equal to that of every
\* demoted former primary linked to it
C19_PrimaryOldest ==
  \A p \in Range(contacts) :
     p.linkPrecedence = "primary" =>
        \A c \in FoldedInto(p.id) : p.createdAt <= c.createdAt

\* C19 happens when one primary has two former primaries folded into it, one of
\* its own age and one younger
C19_Witness ==
  \E p \in Range(contacts) :
     /\ p.linkPrecedence = "primary"
     /\ \E c, d \in FoldedInto(p.id) :
           p.createdAt = c.createdAt /\ p.createdAt < d.createdAt

\* a table without the time of its last updates
WithoutUpdatedAt(store) == [i \in DOMAIN store |-> [store[i] EXCEPT !.updatedAt = 0]]

\* the uninterrupted run of the stopped call, with its new record at pos
Uninterrupted(pos) ==
  identifyContact(crashedFrom, request,
                  IF Len(contacts) > Len(crashedFrom) THEN now - 1 ELSE now, pos, "none")

RecordView(store, c) ==
  [email |-> c.email, phoneNumber |-> c.phoneNumber, linkPrecedence |-> c.linkPrecedence,
   linkedTo |-> IF HasId(store, c.linkedId)
                  THEN <<ById(store, c.linkedId).email, ById(store, c.linkedId).phoneNumber>>
                  ELSE <<>>]

TableView(store) ==
  [v \in {RecordView(store, c) : c \in Range(store)} |->
     Cardinality({i \in DOMAIN store : RecordView(store, store[i]) = v})]

\* the table after two calls answered one after the other
Serial(store, r1, r2) ==
  identifyContact(identifyContact(store, r1, now, 0, "none").store,
                  r2, now + 1, 0, "none").store

\* two calls ran side by side, no third one with them, and both are answered
TwoCallsDone == Quiescent /\ Len(round) = 2

\* C13: two calls that ran side by side leave the table that the two calls,
\* answered one after the other in one of the two orders, leave
C13_Serializable ==
  TwoCallsDone =>
     \/ TableView(contacts) = TableView(Serial(base, round[1], round[2]))
     \/ TableView(contacts) = TableView(Serial(base, round[2], round[1]))

\* two calls with the same email and phone number, on a table with neither, both
\* found no match
BothFoundNoMatch ==
  /\ TwoCallsDone
  /\ round[1] = round[2]
  /\ round[1].email # Undefined
  /\ round[1].phoneNumber # Undefined
  /\ \A c \in Range(base) :
        c.email # round[1].email /\ c.phoneNumber # round[1].phoneNumber
  /\ \A p \in Callers : calls[p].req = round[1] /\ calls[p].branch = "newPrimary"

C17_NoPromotion ==
  [][\A c \in Range(contacts) :
        c.linkPrecedence = "secondary" =>
           \A d \in Range(contacts') : d.id = c.id => d.linkPrecedence = "secondary"]_vars

\* C17 happens when a record created as a secondary has been re-pointed while
\* another call is in progress
C17_Witness ==
  /\ \E p \in Callers : Active(p)
  /\ \E c \in Range(contacts) :
        /\ c.linkPrecedence = "secondary"
        /\ c.id \notin createdAsPrimary
        /\ c.updatedAt > c.createdAt

\* the places of the operations of one name in the call's log
Places(name) == {i \in DOMAIN ops : ops[i] = name}

WritePlaces == Places("create") \cup Places("update")

\* one matching read, before every write; one consolidating read at most, after
\* every write
WritesBetweenReads ==
  /\ ops # <<>> => Places("findByEmailOrPhone") = {1}
  /\ Cardinality(Places("getLinkedContacts")) <= 1
  /\ \A i \in WritePlaces : \A j \in Places("getLinkedContacts") : i < j

MatchedSecondaries == {c \in Matched : c.linkPrecedence = "secondary"}

\* C21 as stated: a call issues two writes at most, all of them after its
\* matching read and before its consolidating read
C21_AtMostTwoWrites ==
  Called => /\ Cardinality(WritePlaces) <= 2
            /\ WritesBetweenReads

\* C21 amended: a call issues one create at most, and updates only when it
\* merges two chains, one for the newer root and one for every matched
\* secondary of the newer chain; all its writes come after its matching read
\* and before its consolidating read
C21_WritesBetweenReads ==
  Called =>
     /\ Cardinality(Places("create")) <= 1
     /\ Cardinality(Places("update")) <= 1 + Cardinality(MatchedSecondaries)
     /\ Cardinality(MatchedRoots) # 2 => Places("update") = {}
     /\ TwoChainsOfDifferentAge =>
           Cardinality(Places("update"))
             = 1 + Cardinality({c \in MatchedSecondaries : c.linkedId = NewerRoot})
     /\ WritesBetweenReads

\* C21 happens when a merge re-points two matched secondaries of the newer chain
C21_Witness ==
  /\ TwoChainsOfDifferentAge
  /\ Cardinality({c \in MatchedSecondaries : c.linkedId = NewerRoot}) = 2
  /\ Cardinality(Places("update")) = 3
  /\ result.success

\* C22: after a merge of two chains every record that was linked to the newer
\* root, matched by the request or not, is a secondary linked to the older root
C22_MergeRepointsAll ==
  TwoChainsOfDifferentAge =>
     \A c \in Range(pre) :
        c.linkedId = NewerRoot =>
           /\ ById(contacts, c.id).linkedId = OlderRoot
           /\ ById(contacts, c.id).linkPrecedence = "secondary"

\* C23: a request with neither field is answered 400, a call that ends in a
\* failure for a request with a field (a store operation failed, or a link led
\* to no primary) is answered 500, and a successful call is answered 200
C23_StatusMapping ==
  Called =>
     /\ request = NoRequest => identify(result) = 400
     /\ (request # NoRequest /\ ~result.success) => identify(result) = 500
     /\ result.success => identify(result) = 200

\* the matched records hang from more than two roots
ManyChains == Called /\ Cardinality(MatchedRoots) > 2

\* C24: a call whose matched records belong to more than two chains writes
\* nothing and answers for the matched root with the smallest createdAt
C24_ManyChainsNoWrite ==
  ManyChains =>
     /\ contacts = pre
     /\ WritePlaces = {}
     /\ result.success
     /\ result.data.primaryContactId \in MatchedRoots
     /\ \A r \in MatchedRoots :
           ById(pre, result.data.primaryContactId).createdAt <= ById(pre, r).createdAt

\* C24 happens when the request matches three primaries
C24_Witness ==
  /\ ManyChains
  /\ \A r \in MatchedRoots : IsPrimary(pre, r)
  /\ branch = "manyGroups"

\* C25: calls answered one after the other from the empty table on never find
\* their matched records hanging from more than two roots, and never take the
\* branch for more than two groups
C25_AtMostTwoChains ==
  Called => /\ Cardinality(MatchedRoots) <= 2
            /\ branch # "manyGroups"

\* the same records in another scan order
Reordered(store, f) == [i \in DOMAIN store |-> store[f[i]]]

\* the ids of the primaries of `store` that the call of the request on it demotes
DemotedFrom(store) ==
  LET after == identifyContact(store, request, now, 0, "none").store
  IN {c.id : c \in {d \in Range(after) :
                       IsPrimary(store, d.id) /\ d.linkPrecedence = "secondary"}}

TwoChainsOfOneAge ==
  /\ MatchedChains(2)
  /\ \A r, q \in MatchedRoots : ById(pre, r).createdAt = ById(pre, q).createdAt

\* C26: when the two matched roots have the same createdAt, the call demotes
\* the same root in whatever order the matcher returns the records
C26_TieBreakDeterministic ==
  TwoChainsOfOneAge =>
     \A f \in Permutations(DOMAIN pre) :
        DemotedFrom(Reordered(pre, f)) = {c.id : c \in Demoted}

\* C27: a call whose fetch of a matched secondary's root finds no record is
\* answered with a failure and issues no create and no update
C27_RootFetchFailure ==
  (Called /\ failed = "rootFetch") =>
     /\ ~result.success
     /\ contacts = pre
     /\ WritePlaces = {}

\* C27 happens for a request that matches one chain through a secondary and
\* brings a value the chain does not have
C27_Witness ==
  /\ Called
  /\ failed = "rootFetch"
  /\ MatchedChains(1)
  /\ BringsNew

\* C28: a merge whose demoting update fails is answered with a failure and
\* issues no write after it: the table is as the call found it
C28_DemoteFailure ==
  (Called /\ failed = "demote") =>
     /\ ~result.success
     /\ contacts = pre
     /\ Places("create") = {}
     /\ Cardinality(Places("update")) = 1

\* C28 happens when the newer chain has a matched secondary to re-point
C28_Witness ==
  /\ Called
  /\ failed = "demote"
  /\ TwoChainsOfDifferentAge
  /\ \E c \in MatchedSecondaries : c.linkedId = NewerRoot

\* the primaries the call found with the email and the phone number of its request
DuplicatePrimaries ==
  {c \in Range(pre) : /\ c.linkPrecedence = "primary"
                       /\ c.email = request.email
                       /\ c.phoneNumber = request.phoneNumber}

FoundDuplicates ==
  /\ Called
  /\ request.email # Undefined
  /\ request.phoneNumber # Undefined
  /\ Cardinality(DuplicatePrimaries) = 2

\* C29: a call, answered alone, that finds two primaries with the email and the
\* phone number of its request leaves one of them primary and the other its
\* secondary, and its response names the one and lists the other
C29_DuplicatesHealed ==
  FoundDuplicates =>
     \E kept, other \in DuplicatePrimaries :
        /\ kept.id # other.id
        /\ IsPrimary(contacts, kept.id)
        /\ ById(contacts, other.id).linkPrecedence = "secondary"
        /\ ById(contacts, other.id).linkedId = kept.id
        /\ result.success
        /\ result.data.primaryContactId = kept.id
        /\ Contains(result.data.secondaryContactIds, other.id)

\* C29 happens with the younger of the two primaries first in the scan order
\* and a third primary beside them
C29_Witness ==
  /\ FoundDuplicates
  /\ Len(pre) > 2
  /\ \E i, j \in DOMAIN pre :
        /\ i < j
        /\ pre[i] \in DuplicatePrimaries /\ pre[j] \in DuplicatePrimaries
        /\ pre[i].createdAt > pre[j].createdAt

\* the record reached from c by following linkedId n times, NoContact where a
\* link leads to no record
RECURSIVE Followed(_, _)
Followed(c, n) ==
  IF n = 0 \/ c.linkedId = NoId THEN c
  ELSE IF ~HasId(contacts, c.linkedId) THEN NoContact
  ELSE Followed(ById(contacts, c.linkedId), n - 1)

\* C30: with calls running side by side and no two records of one createdAt,
\* every linkedId is the id of a record with a strictly smaller createdAt, and
\* following linkedId from any record ends at a record without linkedId
C30_LinksLeadBack ==
  \A c \in Range(contacts) :
     /\ c.linkedId # NoId =>
           /\ HasId(contacts, c.linkedId)
           /\ ById(contacts, c.linkedId).createdAt < c.createdAt
     /\ Followed(c, Len(contacts)) # NoContact
     /\ Followed(c, Len(contacts)).linkedId = NoId

\* C30 happens when two calls that ran side by side have both merged two chains
C30_Witness ==
  /\ Len(round) = 2
  /\ \A p \in Callers : calls[p].branch = "twoGroups" /\ calls[p].pc = "done"
  /\ \E c \in Range(contacts) : c.id \in createdAsPrimary /\ c.linkedId # NoId
  /\ \A c, d \in Range(contacts) : c.id # d.id => c.createdAt # d.createdAt

\* C31: a successful response lists the email and the phone number of its request
C31_ResponseCoversRequest ==
  (Called /\ result.success) =>
     /\ request.email # Undefined => Contains(result.data.emails, request.email)
     /\ request.phoneNumber # Undefined =>
           Contains(result.data.phoneNumbers, request.phoneNumber)

Primaries == {c \in Range(contacts) : c.linkPrecedence = "primary"}

SharesValue(c, d) ==
  \/ c.email # Undefined /\ c.email = d.email
  \/ c.phoneNumber # Undefined /\ c.phoneNumber = d.phoneNumber

\* C32: two records with the same email or the same phone number are members of
\* the chain of one primary, so no value is carried in the chains of two primaries
C32_ChainsPartitionValues ==
  \A c, d \in Range(contacts) :
     SharesValue(c, d) =>
        \E p \in Primaries : c \in Chain(contacts, p.id) /\ d \in Chain(contacts, p.id)

\* C33: with no failing store operation and calls answered one after the other,
\* every call whose request has an email or a phone number succeeds
C33_ValidRequestSucceeds ==
  (Called /\ failed = "none" /\ request # NoRequest) => result.success

\* C34: a call that is answered with a failure has left the table as it found it
C34_FailureWritesNothing ==
  (Called /\ ~result.success) => contacts = pre

\* the matched records hang from one root
OneChain == Called /\ Cardinality(MatchedRoots) = 1

\* the decision of shouldCreateSecondaryContact, taken on every member of the
\* chain: the root and the records linked to it
DecisionOnChain ==
  /\ ~\E c \in Chain(pre, TheRoot) :
         c.email = request.email /\ c.phoneNumber = request.phoneNumber
  /\ \/ request.email # Undefined /\ ~OnChain("email", request.email)
     \/ request.phoneNumber # Undefined /\ ~OnChain("phoneNumber", request.phoneNumber)

\* C35: when the matched records hang from one root, the call issues its create
\* exactly when the decision taken on the whole chain says so, which is when the
\* request's email or its phone number is on no member of the chain
C35_DecisionOnWholeChain ==
  OneChain =>
     /\ Places("create") # {} <=> DecisionOnChain
     /\ DecisionOnChain <=> BringsNew
     /\ Cardinality(Created) = (IF BringsNew THEN 1 ELSE 0)

\* C35 happens when a member of the chain is not among the matched records and
\* the request brings a new value
C35_Witness ==
  /\ OneChain
  /\ \E c \in Chain(pre, TheRoot) : c \notin Matched
  /\ BringsNew
  /\ Cardinality(Created) = 1

\* the response names a primary of the table and lists secondaries of the table
NamesByPrecedence(store, data) ==
  /\ IsPrimary(store, data.primaryContactId)
  /\ \A i \in DOMAIN data.secondaryContactIds :
        /\ HasId(store, data.secondaryContactIds[i])
        /\ ById(store, data.secondaryContactIds[i]).linkPrecedence = "secondary"

\* C36: in the table as it is when a successful response is built, the
\* response's primaryContactId is the id of a primary and every id of its
\* secondaryContactIds is the id of a secondary
C36_ResponseNamesByPrecedence ==
  [][/\ (branch' # "none" /\ result'.success) => NamesByPrecedence(contacts', result'.data)
     /\ \A p \in Callers :
           (calls[p].pc # "done" /\ calls'[p].pc = "done" /\ calls'[p].result.success)
              => NamesByPrecedence(contacts', calls'[p].result.data)]_vars

\* C37: a successful response lists every email and phone number that the
\* kept response, an earlier successful response to the same request, listed
C37_NeverShrinks ==
  (Called /\ result.success) =>
     \A entry \in listed.values :
        entry[1] = request =>
           Contains(IF entry[2] = "email" THEN result.data.emails
                                          ELSE result.data.phoneNumbers, entry[3])

\* the groups the grouper returns for the records the matcher finds in `store`
Grouped(store) ==
  groupContactsByPrimary(store, findByEmailOrPhone(store, request), FALSE)

\* the call found records and the grouper found the root of each of them
GroupsReturned == Called /\ Matched # {} /\ ~Grouped(pre).threw

OnePerRoot(groups) ==
  /\ \A i, j \in DOMAIN groups : groups[i].primaryId = groups[j].primaryId => i = j
  /\ {groups[i].primaryId : i \in DOMAIN groups} = {PrimaryIdOf(c) : c \in Matched}
  /\ \A i \in DOMAIN groups : groups[i].createdAt = ById(pre, groups[i].primaryId).createdAt

MatchedOfRoot(groups) ==
  \A i \in DOMAIN groups :
     /\ Range(groups[i].contacts) = {c \in Matched : PrimaryIdOf(c) = groups[i].primaryId}
     /\ Len(groups[i].contacts) = Cardinality(Range(groups[i].contacts))

ByRootCreatedAt(groups) ==
  \A i, j \in DOMAIN groups : i < j => groups[i].createdAt <= groups[j].createdAt

\* the place in the matcher's result of the first record of the group
FirstPlace(store, group) ==
  LET found == findByEmailOrPhone(store, request)
  IN CHOOSE k \in DOMAIN found :
        /\ PrimaryIdOf(found[k]) = group.primaryId
        /\ \A m \in 1..(k - 1) : PrimaryIdOf(found[m]) # group.primaryId

ByFirstAppearance(store, groups) ==
  \A i, j \in DOMAIN groups : i < j => FirstPlace(store, groups[i]) < FirstPlace(store, groups[j])

\* the groups without the order of their members
Members(groups) ==
  [i \in DOMAIN groups |->
     [primaryId |-> groups[i].primaryId, createdAt |-> groups[i].createdAt,
      contacts |-> Range(groups[i].contacts)]]

\* the groups without their order and without the order of their members
Unordered(groups) == Range(Members(groups))

\* C38: the grouper returns its groups by root createdAt ascending, one group
\* for each root of a matched record, each holding exactly the matched records
\* of that root, and returns the same list of groups in whatever order the
\* matched records come
C38_GroupsByRootCreatedAt ==
  GroupsReturned =>
     /\ ByRootCreatedAt(Grouped(pre).groups)
     /\ OnePerRoot(Grouped(pre).groups)
     /\ MatchedOfRoot(Grouped(pre).groups)
     /\ \A f \in Permutations(DOMAIN pre) :
           Members(Grouped(Reordered(pre, f)).groups) = Members(Grouped(pre).groups)

\* C38 as the code has it: one group for each root of a matched record, with
\* the root's createdAt, each holding exactly the matched records of that
\* root, the groups in the order in which their first records come; another
\* order of the matched records gives the same groups in another order
C38_GroupsByFirstAppearance ==
  GroupsReturned =>
     /\ OnePerRoot(Grouped(pre).groups)
     /\ MatchedOfRoot(Grouped(pre).groups)
     /\ ByFirstAppearance(pre, Grouped(pre).groups)
     /\ \A f \in Permutations(DOMAIN pre) :
           /\ Unordered(Grouped(Reordered(pre, f)).groups) = Unordered(Grouped(pre).groups)
           /\ ByFirstAppearance(Reordered(pre, f), Grouped(Reordered(pre, f)).groups)

\* C38 happens where the matched records hang from two roots and a record of
\* the newer root comes first
C38_Witness ==
  /\ GroupsReturned
  /\ Len(Grouped(pre).groups) = 2
  /\ Grouped(pre).groups[1].createdAt > Grouped(pre).groups[2].createdAt
  /\ \E i \in DOMAIN Grouped(pre).groups : Len(Grouped(pre).groups[i].contacts) > 1

====
